---- MODULE Spec2Model ----
(***************************************************************************)
(* Model of the similarity search subsystem of the meeting assistant:      *)
(* DatabaseManager (database.py) with its embedding codec, cosine          *)
(* similarity, search_meetings and get_similar_meetings, and               *)
(* AIServices.get_embeddings (ai_services.py).                             *)
(*                                                                         *)
(* Numbers.  Embedding elements are small integers, which float32 and      *)
(* float64 both hold exactly.  A similarity is the record [dot, nn, value]:*)
(* value is the float the code computes, norm by norm and operation by     *)
(* operation with round-to-nearest-even; dot and nn = norm1^2 * norm2^2    *)
(* keep the exact number dot/sqrt(nn) it approximates.  Every vector of    *)
(* Embeddings has an integer norm, so there value is the correctly rounded *)
(* exact number and comparing floats is comparing the exact numbers.       *)
(***************************************************************************)
EXTENDS Integers, Sequences, FiniteSets, TLC

\* ---------------------------------------------------------------- bounds
\* Number of save_meeting calls in a behaviour (ids are never reused).
MaxMeetings == 3
\* Largest max_results a caller passes; the smallest is -1.
MaxLimit == 2
\* Number of rows of a meetings table read from disk (StoredSpec).
MaxStored == 2
\* Longest vector handed to _cosine_similarity on its own (CosineSpec).
MaxDim == 2
\* Bits of the significand of the floating-point arithmetic.  float64 has
\* 53; the operations and their rounding are the same at every width, and
\* the products of this width fit the integers of the model checker.
FloatBits == 13
\* Longest vector handed to the codec on its own (CodecSpec).
MaxCodecLen == 2
\* Largest sum of squares of a vector handed to _cosine_similarity.
MaxNormSq == 100
\* Longest text handed to truncate_text (TruncateSpec).
MaxTextLen == 4
\* Number of events, and of tasks, one CalendarIntegration creates
\* (CalendarSpec).
MaxCalendarItems == 2

\* ------------------------------------------------------------ input sets
\* Vectors the embedding provider can return.  <<1,0,0,0>> against
\* <<3,9,3,1>> scores exactly 3/10 and against <<1,4,2,2>> exactly 1/5.
Embeddings ==
    { <<1, 0, 0, 0>>, <<3, 9, 3, 1>>, <<1, 4, 2, 2>>, <<0, 0, 0, 0>>, <<1, 0>> }

\* What the provider's embeddings.create call does: raise (ok = FALSE), or
\* return a vector.
ProviderResponses ==
    {[ok |-> FALSE, embedding |-> << >>]}
        \cup {[ok |-> TRUE, embedding |-> e] : e \in Embeddings}

\* The 'embeddings' entry of meeting_data: a vector, or [] when the
\* embedding step of process_meeting_page failed.
SavedEmbeddings == {<< >>} \cup Embeddings

Limits == (0 - 1) .. MaxLimit

\* ------------------------------------------------------- float32 codec
Pow2(n) == 2 ^ n

Abs(x) == IF x < 0 THEN 0 - x ELSE x

\* floor(log2(a)) for a >= 1
RECURSIVE Log2(_)
Log2(a) == IF a < 2 THEN 0 ELSE 1 + Log2(a \div 2)

\* The quotient q of a division by 2 * half with remainder r (and more
\* below it when sticky), rounded to nearest, ties to even
RoundNearest(q, r, half, sticky) ==
    IF r > half \/ (r = half /\ (sticky \/ q % 2 = 1)) THEN q + 1 ELSE q

\* The 24-bit significand of the single nearest to a >= 1 with
\* e = floor(log2(a)); 2^24 when the rounding carries into the next power
Significand(a, e) ==
    IF e <= 23 THEN a * Pow2(23 - e)
    ELSE RoundNearest(a \div Pow2(e - 23), a % Pow2(e - 23), Pow2(e - 24), FALSE)

\* The four little-endian bytes of a single: sign s, biased exponent E,
\* 23 fraction bits mant
SingleBytes(s, E, mant) ==
    << mant % 256,
       (mant \div 256) % 256,
       (E % 2) * 128 + (mant \div 65536),
       s * 128 + (E \div 2) >>

\* Bytes that hold each element as a float64: np.array(...).tobytes()
\* without dtype=np.float32.
Float32Bytes_float64(x) ==
    IF x = 0 THEN <<0, 0, 0, 0, 0, 0, 0, 0>>
    ELSE LET mant == Significand(Abs(x), Log2(Abs(x))) % 8388608
             E    == Log2(Abs(x)) + 1023
         IN  << 0, 0, 0, (mant % 8) * 32, (mant \div 8) % 256,
                (mant \div 2048) % 256, (E % 16) * 16 + (mant \div 524288),
                (IF x < 0 THEN 128 ELSE 0) + (E \div 16) >>

\* The four little-endian bytes of the IEEE-754 single nearest to the
\* integer x: np.array(..., dtype=np.float32).tobytes() for one element
Float32Bytes(x) ==
    IF x = 0 THEN <<0, 0, 0, 0>>
    ELSE LET s == IF x < 0 THEN 1 ELSE 0
             e == Log2(Abs(x))
             m == Significand(Abs(x), e)
         IN  IF m = 16777216 THEN SingleBytes(s, e + 128, 0)
             ELSE SingleBytes(s, e + 127, m - 8388608)

\* A decoder that drops the sign bit.
Float32Value_nosign(b) ==
    LET E    == (b[4] % 128) * 2 + (b[3] \div 128)
        mant == (b[3] % 128) * 65536 + b[2] * 256 + b[1]
    IN  IF E = 0 /\ mant = 0 THEN 0
        ELSE IF E >= 150 THEN (8388608 + mant) * Pow2(E - 150)
        ELSE (8388608 + mant) \div Pow2(150 - E)

\* The value of the IEEE-754 single with little-endian bytes b (a sequence
\* of four bytes holding an integer value).
Float32Value(b) ==
    LET s    == b[4] \div 128
        E    == (b[4] % 128) * 2 + (b[3] \div 128)
        mant == (b[3] % 128) * 65536 + b[2] * 256 + b[1]
    IN  IF E = 0 /\ mant = 0 THEN 0
        ELSE LET a == IF E >= 150 THEN (8388608 + mant) * Pow2(E - 150)
                      ELSE (8388608 + mant) \div Pow2(150 - E)
             IN  IF s = 1 THEN 0 - a ELSE a

RECURSIVE ToBytes(_)
ToBytes(v) == IF v = << >> THEN << >>
              ELSE Float32Bytes(Head(v)) \o ToBytes(Tail(v))

\* DatabaseManager._serialize_embeddings: b'' for an empty list, else the
\* float32 bytes of the elements.
_serialize_embeddings(embeddings) ==
    IF embeddings = << >> THEN << >> ELSE ToBytes(embeddings)

\* A decoder that drops the bytes after the last whole element.
DeserializeRaises_never(embeddings_blob) == FALSE

\* np.frombuffer raises ValueError when the buffer is not a whole number
\* of 4-byte elements.
DeserializeRaises(embeddings_blob) ==
    embeddings_blob # << >> /\ Len(embeddings_blob) % 4 # 0

\* The elements of a buffer of whole 4-byte elements, in order.
RECURSIVE FromBytes(_)
FromBytes(b) == IF Len(b) < 4 THEN << >>
                ELSE <<Float32Value(SubSeq(b, 1, 4))>>
                     \o FromBytes(SubSeq(b, 5, Len(b)))

\* DatabaseManager._deserialize_embeddings, where it does not raise
_deserialize_embeddings(embeddings_blob) ==
    IF embeddings_blob = << >> THEN << >> ELSE FromBytes(embeddings_blob)

\* ---------------------------------------------------- cosine similarity
RECURSIVE Dot(_, _)
Dot(a, b) == IF a = << >> THEN 0
             ELSE Head(a) * Head(b) + Dot(Tail(a), Tail(b))

\* Binary floating point, round to nearest, ties to even.  A float is
\* [m, e], standing for m * 2^e, with 2^(FloatBits-1) <= |m| < 2^FloatBits,
\* or m = 0.
FloatZero == [m |-> 0, e |-> 0]
FloatOne == [m |-> Pow2(FloatBits - 1), e |-> 1 - FloatBits]

\* m * 2^e with m <= 2^FloatBits, as a float
Normal(m, e) ==
    IF m = Pow2(FloatBits) THEN [m |-> Pow2(FloatBits - 1), e |-> e + 1]
    ELSE [m |-> m, e |-> e]

\* n * 2^e rounded to the FloatBits bits above bit number shift
RoundAt(n, e, sticky, shift) ==
    IF shift <= 0 THEN [m |-> n * Pow2(0 - shift), e |-> e + shift]
    ELSE Normal(RoundNearest(n \div Pow2(shift), n % Pow2(shift),
                             Pow2(shift - 1), sticky),
                e + shift)

\* n * 2^e (n > 0; a nonzero remainder below the last bit of n when
\* sticky) rounded to FloatBits bits
RoundFloat(n, e, sticky) == RoundAt(n, e, sticky, Log2(n) + 1 - FloatBits)

\* floor(sqrt(n)), found bit by bit from the top
RECURSIVE SqrtBits(_, _, _)
SqrtBits(n, bit, acc) ==
    IF bit = 0 THEN acc
    ELSE SqrtBits(n, bit \div 2,
                  IF (acc + bit) * (acc + bit) <= n THEN acc + bit ELSE acc)

\* np.linalg.norm: the correctly rounded square root of the sum of
\* squares nsq >= 1
SqrtRound(scaled, k, root) == RoundAt(root, 0 - k, root * root # scaled, 1)
SqrtScaled(scaled, k) == SqrtRound(scaled, k, SqrtBits(scaled, Pow2(FloatBits), 0))
SqrtShift(nsq, k) == SqrtScaled(nsq * Pow2(2 * k), k)
FloatSqrt(nsq) == SqrtShift(nsq, (2 * FloatBits + 1 - Log2(nsq)) \div 2)

\* The norms of the vectors with sums of squares up to MaxNormSq, each
\* computed once
Norm == [nsq \in 1..MaxNormSq |-> FloatSqrt(nsq)]

\* norm1 * norm2: the product p of two significands has 2 * FloatBits
\* bits or one less
MulRound(p, e) ==
    RoundAt(p, e, FALSE,
            IF p >= Pow2(2 * FloatBits - 1) THEN FloatBits ELSE FloatBits - 1)
FloatMul(a, b) == MulRound(a.m * b.m, a.e + b.e)

\* n / d for an integer n >= 1 and a float d > 0
\* (the quotient q of the scaled division has FloatBits + 2 or + 3 bits)
DivRound(q, e, sticky) ==
    RoundAt(q, e, sticky, IF q >= Pow2(FloatBits + 2) THEN 3 ELSE 2)
DivScaled(num, k, d) == DivRound(num \div d.m, 0 - k - d.e, num % d.m # 0)
DivShift(n, k, d) == DivScaled(n * Pow2(k), k, d)
FloatDiv(n, d) == DivShift(n, 2 * FloatBits + 1 - Log2(n), d)

\* the float of an integer n >= 1, and of the decimal literal p/q
FloatOf(n) == RoundFloat(n, 0, FALSE)
FloatLiteral(p, q) == FloatDiv(p, FloatOf(q))

\* a < b
FloatLess(a, b) ==
    IF a.m > 0 /\ b.m > 0 THEN a.e < b.e \/ (a.e = b.e /\ a.m < b.m)
    ELSE IF a.m < 0 /\ b.m < 0 THEN b.e < a.e \/ (a.e = b.e /\ a.m < b.m)
    ELSE a.m < b.m

\* The float 0.0; dot and nn keep the exact value dot/sqrt(nn)
ZeroSim == [dot |-> 0, nn |-> 1, value |-> FloatZero]

FloatNeg(a) == [m |-> 0 - a.m, e |-> a.e]

\* What a division by a zero norm yields: nan
FloatNaN == [m |-> 0, e |-> 1]

\* A quotient that divides by the squared norms.
Quotient_nosqrt(dot_product, norm1sq, norm2sq) ==
    IF norm1sq = 0 \/ norm2sq = 0 THEN FloatNaN
    ELSE IF dot_product = 0 THEN FloatZero
    ELSE IF dot_product < 0
    THEN FloatNeg(FloatDiv(0 - dot_product,
                           FloatMul(FloatOf(norm1sq), FloatOf(norm2sq))))
    ELSE FloatDiv(dot_product, FloatMul(FloatOf(norm1sq), FloatOf(norm2sq)))

\* dot_product / (norm1 * norm2) as the return statement computes it
Quotient(dot_product, norm1sq, norm2sq) ==
    IF norm1sq = 0 \/ norm2sq = 0 THEN FloatNaN
    ELSE IF dot_product = 0 THEN FloatZero
    ELSE IF dot_product < 0
    THEN FloatNeg(FloatDiv(0 - dot_product,
                           FloatMul(Norm[norm1sq], Norm[norm2sq])))
    ELSE FloatDiv(dot_product, FloatMul(Norm[norm1sq], Norm[norm2sq]))

\* A zero test that returns early only when both norms are zero.
ZeroNorm_both(norm1sq, norm2sq) == norm1sq = 0 /\ norm2sq = 0

\* if norm1 == 0 or norm2 == 0
ZeroNorm(norm1sq, norm2sq) == norm1sq = 0 \/ norm2sq = 0

\* A similarity that divides by the first norm only.
Similarity_onenorm(dot_product, norm1sq, norm2sq) ==
    IF ZeroNorm(norm1sq, norm2sq) THEN ZeroSim
    ELSE [dot |-> dot_product, nn |-> norm1sq,
          value |-> Quotient(dot_product, norm1sq, 1)]

\* The body of _cosine_similarity after the dot product and the norms
Similarity(dot_product, norm1sq, norm2sq) ==
    IF ZeroNorm(norm1sq, norm2sq) THEN ZeroSim
    ELSE [dot |-> dot_product, nn |-> norm1sq * norm2sq,
          value |-> Quotient(dot_product, norm1sq, norm2sq)]

\* DatabaseManager._cosine_similarity.  np.dot raises on vectors of
\* different lengths and the except clause turns that into 0.0.
_cosine_similarity(vec1, vec2) ==
    IF Len(vec1) # Len(vec2) THEN ZeroSim
    ELSE Similarity(Dot(vec1, vec2), Dot(vec1, vec1), Dot(vec2, vec2))

\* x > y for the floats two calls returned
SimGT(x, y) == FloatLess(y.value, x.value)

\* The relevance thresholds 0.3 and 0.2
SearchThreshold == [dot |-> 3, nn |-> 100, value |-> FloatLiteral(3, 10)]
SimilarThreshold == [dot |-> 1, nn |-> 25, value |-> FloatLiteral(1, 5)]

\* The comparison written with >= in place of >.
AboveThreshold_ge(similarity, threshold) == ~SimGT(threshold, similarity)

\* if similarity > 0.3 / if similarity > 0.2
AboveThreshold(similarity, threshold) == SimGT(similarity, threshold)

\* get_embeddings without its st.error call.
get_embeddings_silent(response) ==
    IF response.ok THEN [value |-> response.embedding, errors |-> << >>, calls |-> 1]
    ELSE [value |-> << >>, errors |-> << >>, calls |-> 1]

\* get_embeddings that hands the vector back as float32 values.
get_embeddings_float32(response) ==
    IF response.ok
    THEN [value |-> _deserialize_embeddings(_serialize_embeddings(response.embedding)),
          errors |-> << >>, calls |-> 1]
    ELSE [value |-> << >>, errors |-> <<"Embeddings error">>, calls |-> 1]

\* get_embeddings with a second attempt after a failed one.
get_embeddings_retry(response) ==
    IF response.ok THEN [value |-> response.embedding, errors |-> << >>, calls |-> 1]
    ELSE [value |-> << >>, errors |-> <<"Embeddings error">>, calls |-> 2]

\* AIServices.get_embeddings: the provider's vector, or [] and an st.error
\* message when the call raised.  calls counts the invocations of
\* client.embeddings.create: the one in the try block.
get_embeddings(response) ==
    IF response.ok THEN [value |-> response.embedding, errors |-> << >>, calls |-> 1]
    ELSE [value |-> << >>, errors |-> <<"Embeddings error">>, calls |-> 1]

\* ------------------------------------------------- sort and truncation
\* An insertion that puts x behind the elements equal to it, as sorting
\* ascending and reversing the list would.
RECURSIVE InsertDesc_unstable(_, _)
InsertDesc_unstable(x, t) ==
    IF t = << >> THEN <<x>>
    ELSE IF ~SimGT(x.similarity, Head(t).similarity)
         THEN <<Head(t)>> \o InsertDesc_unstable(x, Tail(t))
         ELSE <<x>> \o t

\* Where results.sort(key=similarity, reverse=True) puts x among the
\* already sorted later elements t: before the first one that is not greater.
RECURSIVE InsertDesc(_, _)
InsertDesc(x, t) ==
    IF t = << >> THEN <<x>>
    ELSE IF SimGT(Head(t).similarity, x.similarity)
         THEN <<Head(t)>> \o InsertDesc(x, Tail(t))
         ELSE <<x>> \o t

\* The list turned around in place of sorted.
SortBySimilarity_reversed(results) ==
    [i \in 1..Len(results) |-> results[Len(results) + 1 - i]]

\* list.sort(key=lambda x: x['similarity'], reverse=True)
RECURSIVE SortBySimilarity(_)
SortBySimilarity(results) ==
    IF results = << >> THEN << >>
    ELSE InsertDesc(Head(results), SortBySimilarity(Tail(results)))

Min(a, b) == IF a < b THEN a ELSE b
Max(a, b) == IF a > b THEN a ELSE b

\* The Python slice results[:max_results]; a negative bound counts from
\* the end of the list.
SliceTo(results, max_results) ==
    IF max_results >= 0
    THEN SubSeq(results, 1, Min(max_results, Len(results)))
    ELSE SubSeq(results, 1, Max(Len(results) + max_results, 0))

\* ---------------------------------------------------------------- state
\* A meetings row keeps the two columns the similarity search decides on,
\* id and embeddings; title, date, summary and transcript are copied into
\* a result unchanged.
VARIABLES
    meetings,    \* rows of table meetings in rowid order: [id, embeddings]
    nextId,      \* the next AUTOINCREMENT id
    lastOp,      \* the operation that ran last
    args,        \* its arguments
    ret,         \* the list search_meetings / get_similar_meetings returned
    retval,      \* the id save_meeting returned, 1/0 for delete_meeting
    st_errors,   \* the st.error messages the call emitted
    scored,      \* ids of the rows the call passed to _cosine_similarity
    fnArgs,      \* arguments of a helper called on its own
    fnOut,       \* what that call did: [done, raised, value]
    calendar_events,  \* rows of table calendar_events: [id, meeting_id]
    tasks,            \* rows of table tasks: [id, meeting_id, status]
    function_calls,   \* rows of table function_calls: [id, meeting_id]
    sqlite_sequence,  \* the last AUTOINCREMENT id of each of these tables
    search_call, \* a search_meetings call running in steps: its position
                 \* pc and its locals query_embeddings and max_results
    fetched,     \* the rows its cursor.fetchall() returned
    txn,         \* the meetings row a save_meeting call running in steps
                 \* inserted and has not committed yet
    saved,       \* saved[id]: the vector of the save_meeting call that
                 \* committed and returned id (kept by the calls in steps)
    provider_calls,   \* client.embeddings.create invocations the call made
    session_state,    \* st.session_state: the ids m whose key
                      \* confirm_delete_<m> is set
    widgets,     \* what the last run of the management page left on screen:
                 \* its buttons and the text of the title filter
    clicked,     \* the button whose click started the last run of the page,
                 \* and the ids whose Delete button was clicked so far
    process,     \* a run of process_meeting_page: its position pc, its
                 \* locals (TRUE for a path, a transcript or a URL, FALSE
                 \* for None), and the steps that succeeded and failed
    calendar     \* a CalendarIntegration: its lists calendar_events and tasks

childTables == <<calendar_events, tasks, function_calls, sqlite_sequence>>
concVars == <<search_call, fetched, txn, saved>>
pageVars == <<session_state, widgets, clicked, process, calendar>>

vars == <<meetings, nextId, lastOp, args, ret, retval, st_errors, scored,
          fnArgs, fnOut, childTables, concVars, provider_calls, pageVars>>

NoFnArgs == [vec1 |-> << >>, vec2 |-> << >>]
NoFnOut == [done |-> FALSE, raised |-> FALSE, value |-> ZeroSim]

NoArgs == [query |-> [ok |-> FALSE, embedding |-> << >>],
           max_results |-> 0, meeting_id |-> 0, task_id |-> 0, status |-> ""]

\* The three tables that reference meetings, as init_database creates them
NoChildRows ==
    /\ calendar_events = << >>
    /\ tasks = << >>
    /\ function_calls = << >>
    /\ sqlite_sequence = [calendar_events |-> 0, tasks |-> 0, function_calls |-> 0]

\* No call is under way
NoSearchCall == [pc |-> "idle", response |-> [ok |-> FALSE, embedding |-> << >>],
                 query_embeddings |-> << >>, max_results |-> 0, provider_calls |-> 0]

\* No page has run: no session key is set, no button is on screen.
NoAnalysis == [ok |-> FALSE, calendar_events |-> << >>, tasks |-> << >>,
               function_calls |-> << >>]
NoProcess == [pc |-> "idle", file_type |-> "audio", temp_path |-> FALSE,
              audio_path |-> FALSE, transcript_data |-> FALSE,
              analysis |-> NoAnalysis, embeddings |-> << >>,
              visual_url |-> FALSE, done |-> << >>, failed |-> << >>]
NoPage ==
    /\ session_state = {}
    /\ widgets = [buttons |-> {}, search_filter |-> ""]
    /\ clicked = [button |-> "none", id |-> 0, deletes |-> {}]
    /\ process = NoProcess
    /\ calendar = [calendar_events |-> << >>, tasks |-> << >>]

NoCalls ==
    /\ search_call = NoSearchCall
    /\ fetched = << >>
    /\ txn = << >>
    /\ saved = << >>

\* The loop with a row that has no vector treated as an error.
RECURSIVE SearchRows_strict(_, _, _)
SearchRows_strict(rows, query_embeddings, acc) ==
    IF rows = << >> THEN acc
    ELSE LET row == Head(rows)
         IN  IF row.embeddings = << >> \/ DeserializeRaises(row.embeddings)
             THEN [acc EXCEPT !.raised = TRUE, !.results = << >>]
             ELSE LET meeting_embeddings == _deserialize_embeddings(row.embeddings)
                      similarity == _cosine_similarity(query_embeddings, meeting_embeddings)
                  IN  SearchRows_strict(Tail(rows), query_embeddings,
                        [raised  |-> FALSE,
                         results |-> IF AboveThreshold(similarity, SearchThreshold)
                                     THEN Append(acc.results,
                                                 [id |-> row.id,
                                                  similarity |-> similarity])
                                     ELSE acc.results,
                         scored  |-> Append(acc.scored, row.id)])

\* The loop of search_meetings over cursor.fetchall(): rows with an empty
\* blob are passed over, a blob that does not decode raises.  acc holds
\* the results list and the rows scored so far.
RECURSIVE SearchRows(_, _, _)
SearchRows(rows, query_embeddings, acc) ==
    IF rows = << >> THEN acc
    ELSE LET row == Head(rows)
         IN  IF row.embeddings = << >>
             THEN SearchRows(Tail(rows), query_embeddings, acc)
             ELSE IF DeserializeRaises(row.embeddings)
             THEN [acc EXCEPT !.raised = TRUE, !.results = << >>]
             ELSE LET meeting_embeddings == _deserialize_embeddings(row.embeddings)
                      similarity == _cosine_similarity(query_embeddings, meeting_embeddings)
                  IN  SearchRows(Tail(rows), query_embeddings,
                        [raised  |-> FALSE,
                         results |-> IF AboveThreshold(similarity, SearchThreshold)
                                     THEN Append(acc.results,
                                                 [id |-> row.id,
                                                  similarity |-> similarity])
                                     ELSE acc.results,
                         scored  |-> Append(acc.scored, row.id)])

\* The loop of get_similar_meetings: every row is decoded and scored.
RECURSIVE SimilarRows(_, _, _)
SimilarRows(rows, meeting_embeddings, acc) ==
    IF rows = << >> THEN acc
    ELSE LET row == Head(rows)
         IN  IF DeserializeRaises(row.embeddings)
             THEN [acc EXCEPT !.raised = TRUE, !.results = << >>]
             ELSE LET other_embeddings == _deserialize_embeddings(row.embeddings)
                      similarity == _cosine_similarity(meeting_embeddings, other_embeddings)
                  IN  SimilarRows(Tail(rows), meeting_embeddings,
                        [raised  |-> FALSE,
                         results |-> IF AboveThreshold(similarity, SimilarThreshold)
                                     THEN Append(acc.results,
                                                 [id |-> row.id,
                                                  similarity |-> similarity])
                                     ELSE acc.results,
                         scored  |-> Append(acc.scored, row.id)])

\* A results list that starts from what the previous call returned.
NoRows_kept == [raised |-> FALSE, results |-> ret, scored |-> scored]

\* results = [] before either loop
NoRows == [raised |-> FALSE, results |-> << >>, scored |-> << >>]

\* The query without its id != ? condition.
OtherRows_all(meeting_id) == meetings

\* SELECT ... FROM meetings WHERE id != ? AND embeddings IS NOT NULL
\* (save_meeting never stores NULL, so only the id filters)
OtherRows(meeting_id) == SelectSeq(meetings, LAMBDA r : r.id # meeting_id)

\* DatabaseManager.get_meeting_by_id: the row, or none
HasMeeting(meeting_id) == \E i \in 1..Len(meetings) : meetings[i].id = meeting_id
get_meeting_by_id(meeting_id) ==
    meetings[CHOOSE i \in 1..Len(meetings) : meetings[i].id = meeting_id]

Init ==
    /\ meetings = << >>
    /\ nextId = 1
    /\ lastOp = "none"
    /\ args = NoArgs
    /\ ret = << >>
    /\ retval = 0
    /\ st_errors = << >>
    /\ scored = << >>
    /\ provider_calls = 0
    /\ fnArgs = NoFnArgs
    /\ fnOut = NoFnOut
    /\ NoChildRows
    /\ NoCalls
    /\ NoPage

\* meeting_data with an 'embeddings' entry and no calendar events, tasks
\* or function calls
MeetingData(embeddings) ==
    [embeddings |-> embeddings, calendar_events |-> << >>, tasks |-> << >>,
     function_calls |-> << >>]

\* The rows one "for ... cursor.execute(INSERT ...)" loop of save_meeting
\* adds to a child table whose last id is last: one row per item, each
\* with the new meeting's id.
ChildRows(items, last, meeting_id) ==
    [i \in 1..Len(items) |-> [id |-> last + i, meeting_id |-> meeting_id]]

TaskRows(items, last, meeting_id) ==
    [i \in 1..Len(items) |->
        [id |-> last + i, meeting_id |-> meeting_id, status |-> items[i]]]

\* A save that takes the number of rows plus one as the new id and
\* replaces the row that has it.
SaveRows_countid(meeting_data) ==
    /\ meetings' = Append(SelectSeq(meetings, LAMBDA r : r.id # Len(meetings) + 1),
                          [id |-> Len(meetings) + 1,
                           embeddings |-> _serialize_embeddings(meeting_data.embeddings)])
    /\ nextId' = nextId + 1
    /\ calendar_events' = calendar_events \o
          ChildRows(meeting_data.calendar_events, sqlite_sequence.calendar_events,
                    Len(meetings) + 1)
    /\ tasks' = tasks \o
          TaskRows(meeting_data.tasks, sqlite_sequence.tasks, Len(meetings) + 1)
    /\ function_calls' = function_calls \o
          ChildRows(meeting_data.function_calls, sqlite_sequence.function_calls,
                    Len(meetings) + 1)
    /\ sqlite_sequence' =
          [calendar_events |-> sqlite_sequence.calendar_events
                                 + Len(meeting_data.calendar_events),
           tasks |-> sqlite_sequence.tasks + Len(meeting_data.tasks),
           function_calls |-> sqlite_sequence.function_calls
                                 + Len(meeting_data.function_calls)]

\* The rows save_meeting writes and commits: the meetings row, then one
\* row per calendar event, task and function call.
SaveRows(meeting_data) ==
    /\ meetings' = Append(meetings,
                      [id |-> nextId,
                       embeddings |-> _serialize_embeddings(meeting_data.embeddings)])
    /\ nextId' = nextId + 1
    /\ calendar_events' = calendar_events \o
          ChildRows(meeting_data.calendar_events, sqlite_sequence.calendar_events, nextId)
    /\ tasks' = tasks \o
          TaskRows(meeting_data.tasks, sqlite_sequence.tasks, nextId)
    /\ function_calls' = function_calls \o
          ChildRows(meeting_data.function_calls, sqlite_sequence.function_calls, nextId)
    /\ sqlite_sequence' =
          [calendar_events |-> sqlite_sequence.calendar_events
                                 + Len(meeting_data.calendar_events),
           tasks |-> sqlite_sequence.tasks + Len(meeting_data.tasks),
           function_calls |-> sqlite_sequence.function_calls
                                 + Len(meeting_data.function_calls)]

\* DatabaseManager.save_meeting
save_meeting(meeting_data) ==
    /\ nextId <= MaxMeetings
    /\ SaveRows(meeting_data)
    /\ lastOp' = "save"
    /\ args' = NoArgs
    /\ ret' = << >>
    /\ retval' = nextId
    /\ st_errors' = << >>
    /\ scored' = << >>
    /\ provider_calls' = 0
    /\ UNCHANGED <<fnArgs, fnOut, concVars, pageVars>>

\* DatabaseManager.delete_meeting: DELETE FROM meetings WHERE id = ?.  The
\* connection never issues PRAGMA foreign_keys = ON, so SQLite does not
\* enforce the ON DELETE CASCADE clauses and the other tables are left
\* as they are.
delete_meeting(meeting_id) ==
    /\ meetings' = SelectSeq(meetings, LAMBDA r : r.id # meeting_id)
    /\ retval' = IF HasMeeting(meeting_id) THEN 1 ELSE 0
    /\ lastOp' = "delete"
    /\ args' = [NoArgs EXCEPT !.meeting_id = meeting_id]
    /\ ret' = << >>
    /\ st_errors' = << >>
    /\ scored' = << >>
    /\ provider_calls' = 0
    /\ UNCHANGED <<nextId, fnArgs, fnOut, childTables, concVars, pageVars>>

\* An UPDATE whose WHERE clause compares meeting_id.
update_task_status_bymeeting(task_id, status) ==
    /\ tasks' = [i \in 1..Len(tasks) |->
                   IF tasks[i].meeting_id = task_id
                   THEN [tasks[i] EXCEPT !.status = status]
                   ELSE tasks[i]]
    /\ retval' = IF \E i \in 1..Len(tasks) : tasks[i].meeting_id = task_id THEN 1 ELSE 0
    /\ lastOp' = "update_task"
    /\ args' = [NoArgs EXCEPT !.task_id = task_id, !.status = status]
    /\ ret' = << >>
    /\ st_errors' = << >>
    /\ scored' = << >>
    /\ provider_calls' = 0
    /\ UNCHANGED <<meetings, nextId, fnArgs, fnOut, calendar_events,
                   function_calls, sqlite_sequence, concVars, pageVars>>

\* DatabaseManager.update_task_status: UPDATE tasks SET status = ? WHERE id = ?
\* and True when cursor.rowcount > 0
update_task_status(task_id, status) ==
    /\ tasks' = [i \in 1..Len(tasks) |->
                   IF tasks[i].id = task_id THEN [tasks[i] EXCEPT !.status = status]
                   ELSE tasks[i]]
    /\ retval' = IF \E i \in 1..Len(tasks) : tasks[i].id = task_id THEN 1 ELSE 0
    /\ lastOp' = "update_task"
    /\ args' = [NoArgs EXCEPT !.task_id = task_id, !.status = status]
    /\ ret' = << >>
    /\ st_errors' = << >>
    /\ scored' = << >>
    /\ provider_calls' = 0
    /\ UNCHANGED <<meetings, nextId, fnArgs, fnOut, calendar_events,
                   function_calls, sqlite_sequence, concVars, pageVars>>

\* DatabaseManager.search_meetings, for a query the provider answers with
\* response and a max_results drawn from limits (the loop and the sort do
\* not depend on max_results and are evaluated once for all of them)
search_meetings(response, limits) ==
    \E emb \in {get_embeddings(response)} :
    \E scan \in {SearchRows(meetings, emb.value, NoRows)} :
    \E sorted \in {SortBySimilarity(scan.results)} :
    \E max_results \in limits :
        /\ lastOp' = "search"
        /\ args' = [NoArgs EXCEPT !.query = response, !.max_results = max_results]
        /\ IF emb.value = << >>
           THEN /\ ret' = << >>
                /\ st_errors' = emb.errors
                /\ scored' = << >>
           ELSE IF scan.raised
           THEN /\ ret' = << >>
                /\ st_errors' = emb.errors \o <<"Search error">>
                /\ scored' = scan.scored
           ELSE /\ ret' = SliceTo(sorted, max_results)
                /\ st_errors' = emb.errors
                /\ scored' = scan.scored
        /\ retval' = 0
        /\ provider_calls' = emb.calls
        /\ UNCHANGED <<meetings, nextId, fnArgs, fnOut, childTables, concVars, pageVars>>

\* DatabaseManager.get_similar_meetings, with max_results drawn from limits
get_similar_meetings(meeting_id, limits) ==
    /\ lastOp' = "similar"
    /\ IF ~HasMeeting(meeting_id) \/ get_meeting_by_id(meeting_id).embeddings = << >>
       THEN /\ \E max_results \in limits :
                args' = [NoArgs EXCEPT !.meeting_id = meeting_id,
                                       !.max_results = max_results]
            /\ ret' = << >>
            /\ st_errors' = << >>
            /\ scored' = << >>
       ELSE IF DeserializeRaises(get_meeting_by_id(meeting_id).embeddings)
       THEN /\ \E max_results \in limits :
                args' = [NoArgs EXCEPT !.meeting_id = meeting_id,
                                       !.max_results = max_results]
            /\ ret' = << >>
            /\ st_errors' = <<"Similar meetings error">>
            /\ scored' = << >>
       ELSE \E scan \in {SimilarRows(OtherRows(meeting_id),
                        _deserialize_embeddings(get_meeting_by_id(meeting_id).embeddings),
                        NoRows)} :
            \E sorted \in {SortBySimilarity(scan.results)} :
            \E max_results \in limits :
                /\ args' = [NoArgs EXCEPT !.meeting_id = meeting_id,
                                          !.max_results = max_results]
                /\ IF scan.raised
                   THEN /\ ret' = << >>
                        /\ st_errors' = <<"Similar meetings error">>
                        /\ scored' = scan.scored
                   ELSE /\ ret' = SliceTo(sorted, max_results)
                        /\ st_errors' = << >>
                        /\ scored' = scan.scored
    /\ retval' = 0
    /\ provider_calls' = 0
    /\ UNCHANGED <<meetings, nextId, fnArgs, fnOut, childTables, concVars, pageVars>>

MeetingIds == 1 .. MaxMeetings

Next ==
    \/ \E e \in SavedEmbeddings : save_meeting(MeetingData(e))
    \/ \E m \in MeetingIds : delete_meeting(m)
    \/ \E r \in ProviderResponses : search_meetings(r, Limits)
    \/ \E m \in MeetingIds : get_similar_meetings(m, Limits)

Spec == Init /\ [][Next]_vars

\* ------------------------------------- meetings with their dependent rows
\* meeting_data as process_meeting_page builds it: with or without an
\* embedding, calendar events, tasks and logged function calls.
MeetingDatas ==
    { MeetingData(<< >>),
      [embeddings |-> <<1, 0>>, calendar_events |-> << >>,
       tasks |-> <<"pending">>, function_calls |-> << >>],
      [embeddings |-> <<1, 0>>, calendar_events |-> <<"event">>,
       tasks |-> <<"pending", "pending">>, function_calls |-> <<"call">>],
      [embeddings |-> <<9, 1>>, calendar_events |-> <<"event">>,
       tasks |-> << >>, function_calls |-> <<"call">>] }

TaskIds == 1 .. 2
TaskStatuses == {"pending", "completed"}

TablesNext ==
    \/ \E d \in MeetingDatas : save_meeting(d)
    \/ \E m \in MeetingIds : delete_meeting(m)
    \/ \E t \in TaskIds, s \in TaskStatuses : update_task_status(t, s)
    \/ \E r \in {[ok |-> TRUE, embedding |-> <<1, 0>>]} :
          search_meetings(r, {MaxLimit})
    \/ \E m \in MeetingIds : get_similar_meetings(m, {MaxLimit})

TablesSpec == Init /\ [][TablesNext]_vars

\* ------------------------------- calls of several sessions, interleaved
\* Each method opens its own connection.  A search reads the table with
\* one SELECT and cursor.fetchall(); a save inserts inside a transaction
\* that conn.commit() ends, or that the with block rolls back when an
\* INSERT raised.  SQLite lets one connection write at a time and shows a
\* reader committed rows only.

\* A read that also sees the rows of the open transaction.
ReadRows_uncommitted == meetings \o [i \in 1..Len(txn) |-> txn[i].row]

\* SELECT id, ..., embeddings FROM meetings WHERE embeddings IS NOT NULL
ReadRows == meetings

\* save_meeting up to its INSERT INTO meetings: the row is written inside
\* the transaction, with the id AUTOINCREMENT assigns.
save_begin(meeting_data) ==
    /\ txn = << >>
    /\ nextId <= MaxMeetings
    /\ txn' = <<[row |-> [id |-> nextId,
                          embeddings |-> _serialize_embeddings(meeting_data.embeddings)],
                 meeting_data |-> meeting_data]>>
    /\ UNCHANGED <<meetings, nextId, lastOp, args, ret, retval, st_errors, scored,
                   provider_calls,                    fnArgs, fnOut, childTables, search_call, fetched, saved, pageVars>>

\* save_meeting from its remaining INSERTs to conn.commit() and return
save_commit ==
    /\ txn # << >>
    /\ SaveRows(txn[1].meeting_data)
    /\ saved' = Append(saved, txn[1].meeting_data.embeddings)
    /\ txn' = << >>
    /\ lastOp' = "save"
    /\ args' = NoArgs
    /\ ret' = << >>
    /\ retval' = nextId
    /\ st_errors' = << >>
    /\ scored' = << >>
    /\ provider_calls' = 0
    /\ UNCHANGED <<fnArgs, fnOut, search_call, fetched, pageVars>>

\* A failure that leaves the meetings row behind, as a connection in
\* autocommit mode would.
save_rollback_autocommit ==
    /\ txn # << >>
    /\ meetings' = Append(meetings, txn[1].row)
    /\ nextId' = nextId + 1
    /\ txn' = << >>
    /\ lastOp' = "save"
    /\ args' = NoArgs
    /\ ret' = << >>
    /\ retval' = 0
    /\ st_errors' = <<"Error saving meeting">>
    /\ scored' = << >>
    /\ provider_calls' = 0
    /\ UNCHANGED <<fnArgs, fnOut, childTables, search_call, fetched, saved, pageVars>>

\* save_meeting when a later INSERT raises: the with block rolls the
\* transaction back (the id is free again) and the call returns None.
save_rollback ==
    /\ txn # << >>
    /\ txn' = << >>
    /\ lastOp' = "save"
    /\ args' = NoArgs
    /\ ret' = << >>
    /\ retval' = 0
    /\ st_errors' = <<"Error saving meeting">>
    /\ scored' = << >>
    /\ provider_calls' = 0
    /\ UNCHANGED <<meetings, nextId, fnArgs, fnOut, childTables, search_call,
                   fetched, saved, pageVars>>

\* delete_meeting waits for the write lock
delete_commit(meeting_id) ==
    /\ txn = << >>
    /\ delete_meeting(meeting_id)

\* search_meetings up to "if not query_embeddings: return []"
search_begin(response, max_results) ==
    /\ search_call.pc = "idle"
    /\ \E emb \in {get_embeddings(response)} :
          IF emb.value = << >>
          THEN /\ lastOp' = "search"
               /\ args' = [NoArgs EXCEPT !.query = response,
                                         !.max_results = max_results]
               /\ ret' = << >>
               /\ st_errors' = emb.errors
               /\ scored' = << >>
               /\ provider_calls' = emb.calls
               /\ fetched' = << >>
               /\ UNCHANGED search_call
          ELSE /\ search_call' = [pc |-> "select", response |-> response,
                                  query_embeddings |-> emb.value,
                                  max_results |-> max_results,
                                  provider_calls |-> emb.calls]
               /\ UNCHANGED <<lastOp, args, ret, st_errors, scored, provider_calls,
                              fetched>>
    /\ UNCHANGED <<meetings, nextId, retval, fnArgs, fnOut, childTables, txn, saved,
                   pageVars>>

\* cursor.execute(SELECT ...) and cursor.fetchall()
search_fetch ==
    /\ search_call.pc = "select"
    /\ fetched' = ReadRows
    /\ search_call' = [search_call EXCEPT !.pc = "loop"]
    /\ UNCHANGED <<meetings, nextId, lastOp, args, ret, retval, st_errors, scored,
                   provider_calls,                    fnArgs, fnOut, childTables, txn, saved, pageVars>>

\* The loop over the fetched rows, the sort, the slice and the return
search_return ==
    /\ search_call.pc = "loop"
    /\ \E scan \in {SearchRows(fetched, search_call.query_embeddings, NoRows)} :
          /\ ret' = IF scan.raised THEN << >>
                    ELSE SliceTo(SortBySimilarity(scan.results),
                                 search_call.max_results)
          /\ st_errors' = IF scan.raised THEN <<"Search error">> ELSE << >>
          /\ scored' = scan.scored
    /\ lastOp' = "search"
    /\ args' = [NoArgs EXCEPT !.query = search_call.response,
                              !.max_results = search_call.max_results]
    /\ retval' = 0
    /\ provider_calls' = search_call.provider_calls
    /\ search_call' = NoSearchCall
    /\ UNCHANGED <<meetings, nextId, fnArgs, fnOut, childTables, fetched, txn, saved,
                   pageVars>>

ConcQueries == {[ok |-> FALSE, embedding |-> << >>],
                [ok |-> TRUE, embedding |-> <<1, 0>>]}

ConcNext ==
    \/ \E e \in {<< >>, <<1, 0>>, <<9, 1>>} : save_begin(MeetingData(e))
    \/ save_commit
    \/ save_rollback
    \/ \E m \in MeetingIds : delete_commit(m)
    \/ \E r \in ConcQueries : search_begin(r, MaxLimit)
    \/ search_fetch
    \/ search_return

ConcSpec == Init /\ [][ConcNext]_vars

\* ------------------------------ saves that fail part way, with child rows
AtomicNext ==
    \/ \E d \in MeetingDatas : save_begin(d)
    \/ save_commit
    \/ save_rollback
    \/ \E m \in MeetingIds : delete_commit(m)

AtomicSpec == Init /\ [][AtomicNext]_vars

\* ------------------------------------------- the meeting management page
\* Streamlit runs meeting_management_page from the top on every click and
\* on every change of an input; st.button returns True only in the run
\* its click started, and only a button the previous run rendered can be
\* clicked.  st.session_state outlives the runs.

\* Titles of the stored meetings, and the texts typed into the filter
MeetingTitle(meeting_id) == IF meeting_id % 2 = 1 THEN "a" ELSE "b"
SearchFilters == {"", "a"}

\* filtered_meetings: every meeting, or those whose title holds the text
Filtered(rows, search_filter) ==
    {rows[i].id : i \in {j \in 1..Len(rows) :
                            search_filter = "" \/ MeetingTitle(rows[j].id) = search_filter}}

\* A page that shows the confirmation dialog of every listed meeting.
ConfirmShown_always(meeting_id, flags) == TRUE

\* if st.session_state.get(f"confirm_delete_{meeting['id']}", False)
ConfirmShown(meeting_id, flags) == meeting_id \in flags

\* The buttons a run renders for the listed meetings: Delete for each, and
\* "Yes, Delete" and Cancel for those whose confirmation dialog is shown.
ManageButtons(listed, flags) ==
    {[button |-> "delete", id |-> m] : m \in listed}
        \cup {[button |-> b, id |-> m] :
                 b \in {"confirm_yes", "confirm_no"},
                 m \in {x \in listed : ConfirmShown(x, flags)}}

\* One run of meeting_management_page, started by a click on button of
\* meeting meeting_id ("none": the page was opened or the filter text
\* changed to search_filter).  deleted is what delete_meeting returns when
\* the run calls it.  The run that st.rerun() starts renders the page
\* again with no button clicked and is part of the step.
meeting_management_page(button, meeting_id, search_filter, deleted) ==
    /\ IF button = "none"
       THEN meeting_id = 0 /\ deleted
       ELSE /\ [button |-> button, id |-> meeting_id] \in widgets.buttons
            /\ search_filter = widgets.search_filter
            /\ button # "confirm_yes" => deleted
    /\ \E listed \in {Filtered(meetings, search_filter)} :
       \E pressed \in {IF /\ meeting_id \in listed
                          /\ button # "delete" =>
                                ConfirmShown(meeting_id, session_state)
                       THEN button ELSE "none"} :
          /\ session_state' =
                IF pressed = "delete" THEN session_state \cup {meeting_id}
                ELSE IF pressed = "confirm_no" \/ (pressed = "confirm_yes" /\ deleted)
                THEN session_state \ {meeting_id}
                ELSE session_state
          /\ meetings' =
                IF pressed = "confirm_yes" /\ deleted
                THEN SelectSeq(meetings, LAMBDA r : r.id # meeting_id)
                ELSE meetings
          /\ lastOp' = IF pressed = "confirm_yes" THEN "delete" ELSE "manage"
          /\ args' = IF pressed = "confirm_yes"
                     THEN [NoArgs EXCEPT !.meeting_id = meeting_id] ELSE NoArgs
          /\ retval' = IF pressed = "confirm_yes" /\ deleted THEN 1 ELSE 0
          /\ st_errors' = IF pressed = "confirm_yes" /\ ~deleted
                          THEN <<"Failed to delete meeting.">> ELSE << >>
          /\ clicked' = [button |-> button, id |-> meeting_id,
                         deletes |-> IF pressed = "delete"
                                     THEN clicked.deletes \cup {meeting_id}
                                     ELSE clicked.deletes]
    /\ widgets' = [buttons |-> ManageButtons(Filtered(meetings', search_filter),
                                             session_state'),
                   search_filter |-> search_filter]
    /\ ret' = << >>
    /\ scored' = << >>
    /\ provider_calls' = 0
    /\ UNCHANGED <<nextId, fnArgs, fnOut, childTables, concVars, process, calendar>>

ManageButtonNames == {"none", "delete", "confirm_yes", "confirm_no"}

ManageNext ==
    \/ \E e \in {<<1, 0>>} : save_meeting(MeetingData(e))
    \/ \E b \in ManageButtonNames, m \in {0} \cup MeetingIds,
          f \in SearchFilters, d \in BOOLEAN :
             meeting_management_page(b, m, f, d)

ManageSpec == Init /\ [][ManageNext]_vars

\* ----------------------------------------- a meetings table read from disk
\* Blobs a meetings row can hold when the file was not written by
\* save_meeting alone: the serialized vectors, and each of them cut short
\* by one byte.
StoredBlobs ==
    {_serialize_embeddings(e) : e \in SavedEmbeddings}
        \cup {SubSeq(_serialize_embeddings(e), 1, 4 * Len(e) - 1) : e \in Embeddings}

RowsOf(blobs) == [i \in 1..Len(blobs) |-> [id |-> i, embeddings |-> blobs[i]]]

StoredInit ==
    /\ \E n \in 0..MaxStored : \E blobs \in [1..n -> StoredBlobs] :
            /\ meetings = RowsOf(blobs)
            /\ nextId = n + 1
    /\ lastOp = "none"
    /\ args = NoArgs
    /\ ret = << >>
    /\ retval = 0
    /\ st_errors = << >>
    /\ scored = << >>
    /\ provider_calls = 0
    /\ fnArgs = NoFnArgs
    /\ fnOut = NoFnOut
    /\ NoChildRows
    /\ NoCalls
    /\ NoPage

StoredNext ==
    \/ \E r \in ProviderResponses : search_meetings(r, Limits)
    \/ \E m \in 1..MaxStored : get_similar_meetings(m, Limits)

StoredSpec == StoredInit /\ [][StoredNext]_vars

\* ------------------------------------------- searches with default limits
\* Vectors whose norms are not all integers: [1,0] and [0,1], [9,1]
\* (0.9 and 0.1 on the scale of tenths) and [1,1,1].
ExampleEmbeddings == { <<1, 0>>, <<0, 1>>, <<9, 1>>, <<1, 1, 1>> }

\* max_results when the caller passes none
DefaultMaxResults == 10
DefaultSimilarResults == 3

ExampleNext ==
    \/ \E e \in ExampleEmbeddings : save_meeting(MeetingData(e))
    \/ \E e \in ExampleEmbeddings :
          search_meetings([ok |-> TRUE, embedding |-> e], {DefaultMaxResults})
    \/ \E m \in MeetingIds : get_similar_meetings(m, {DefaultSimilarResults})

ExampleSpec == Init /\ [][ExampleNext]_vars

\* what a search over rows returns when nothing but rows, the query vector
\* and the limit enters it
SearchOf(rows, query_embeddings, max_results) ==
    IF query_embeddings = << >> THEN << >>
    ELSE SliceTo(SortBySimilarity(
                    SearchRows(rows, query_embeddings,
                               [raised |-> FALSE, results |-> << >>,
                                scored |-> << >>]).results),
                 max_results)

\* the same for get_similar_meetings on the meeting with this id
SimilarOf(rows, meeting_id, max_results) ==
    IF \A i \in 1..Len(rows) : rows[i].id # meeting_id THEN << >>
    ELSE LET source == rows[CHOOSE i \in 1..Len(rows) : rows[i].id = meeting_id]
         IN  IF source.embeddings = << >> THEN << >>
             ELSE SliceTo(SortBySimilarity(
                             SimilarRows(SelectSeq(rows, LAMBDA r : r.id # meeting_id),
                                         _deserialize_embeddings(source.embeddings),
                                         [raised |-> FALSE, results |-> << >>,
                                          scored |-> << >>]).results),
                          max_results)

\* ------------------------------------------------ the process page
\* A click on "Process Meeting" runs the steps of process_meeting_page one
\* after the other.  Each service returns None (or []) after an error of
\* its own; the page decides what a None stops.

FileTypes == {"audio", "video"}

\* What analyze_meeting returns: None, or an analysis with the log of the
\* function call the model asked for and the event or task it created.
Analyses ==
    { [ok |-> TRUE, calendar_events |-> << >>, tasks |-> << >>,
       function_calls |-> << >>],
      [ok |-> TRUE, calendar_events |-> <<"event">>, tasks |-> << >>,
       function_calls |-> <<"call">>],
      [ok |-> TRUE, calendar_events |-> << >>, tasks |-> <<"pending">>,
       function_calls |-> <<"call">>],
      [ok |-> TRUE, calendar_events |-> << >>, tasks |-> << >>,
       function_calls |-> <<"call">>] }

\* A page that goes on to the embedding step when the analysis failed.
NextStep_continue(step, file_type, ok) ==
    CASE step = "save_file"  -> IF file_type = "video" THEN "convert" ELSE "transcribe"
      [] step = "convert"    -> IF ok THEN "transcribe" ELSE "returned"
      [] step = "transcribe" -> IF ok THEN "analyze" ELSE "returned"
      [] step = "analyze"    -> "embeddings"
      [] step = "embeddings" -> "visual"
      [] step = "visual"     -> "save"

\* Where the page goes after a step that succeeded (ok) or gave None:
\* "if not audio_path: return", "if not transcript_data: return",
\* "if not analysis: return"; nothing tests temp_path, embeddings or
\* visual_url.
NextStep(step, file_type, ok) ==
    CASE step = "save_file"  -> IF file_type = "video" THEN "convert" ELSE "transcribe"
      [] step = "convert"    -> IF ok THEN "transcribe" ELSE "returned"
      [] step = "transcribe" -> IF ok THEN "analyze" ELSE "returned"
      [] step = "analyze"    -> IF ok THEN "embeddings" ELSE "returned"
      [] step = "embeddings" -> "visual"
      [] step = "visual"     -> "save"

\* The run after step: the step is logged, pc moves on
Stepped(step, ok) ==
    [process EXCEPT !.pc = NextStep(step, process.file_type, ok),
                    !.done = IF ok THEN Append(@, step) ELSE @,
                    !.failed = IF ok THEN @ ELSE Append(@, step)]

\* Only the run changes
PageStep(run) ==
    /\ process' = run
    /\ UNCHANGED <<meetings, nextId, lastOp, args, ret, retval, st_errors, scored,
                   provider_calls, fnArgs, fnOut, childTables, concVars,
                   session_state, widgets, clicked, calendar>>

\* if st.button("Process Meeting"), for an uploaded file of this type
process_meeting_page(file_type) ==
    /\ process.pc \in {"idle", "returned", "finished"}
    /\ PageStep([NoProcess EXCEPT !.pc = "save_file", !.file_type = file_type])

\* Step 1: temp_path = file_handler.save_uploaded_file(uploaded_file); for
\* an audio file audio_path = temp_path
save_uploaded_file(ok) ==
    /\ process.pc = "save_file"
    /\ PageStep([Stepped("save_file", ok) EXCEPT
                    !.temp_path = ok,
                    !.audio_path = process.file_type # "video" /\ ok])

\* Step 2: audio_path = file_handler.convert_video_to_audio(temp_path);
\* None for the path None
convert_video_to_audio(ok) ==
    /\ process.pc = "convert"
    /\ ~process.temp_path => ~ok
    /\ PageStep([Stepped("convert", ok) EXCEPT !.audio_path = ok])

\* Step 3: transcript_data = ai_services.transcribe_audio(audio_path, ...);
\* None for the path None
transcribe_audio(ok) ==
    /\ process.pc = "transcribe"
    /\ ~process.audio_path => ~ok
    /\ PageStep([Stepped("transcribe", ok) EXCEPT !.transcript_data = ok])

\* Step 4: analysis = ai_services.analyze_meeting(...)
analyze_meeting(analysis) ==
    /\ process.pc = "analyze"
    /\ PageStep([Stepped("analyze", analysis.ok) EXCEPT !.analysis = analysis])

\* Step 5: embeddings = ai_services.get_embeddings(...)
process_embeddings(response) ==
    /\ process.pc = "embeddings"
    /\ PageStep([Stepped("embeddings", response.ok) EXCEPT
                    !.embeddings = get_embeddings(response).value])

\* Step 6: visual_url = ai_services.generate_visual_summary(analysis)
generate_visual_summary(ok) ==
    /\ process.pc = "visual"
    /\ PageStep([Stepped("visual", ok) EXCEPT !.visual_url = ok])

\* Steps 7 and 8: meeting_data is built, save_meeting(meeting_data) is
\* called and returns the new id (committed) or None; after a save the
\* page lists get_similar_meetings(meeting_id).
process_save(committed) ==
    /\ process.pc = "save"
    /\ committed => nextId <= MaxMeetings
    /\ process' = [process EXCEPT !.pc = "finished"]
    /\ IF committed
       THEN /\ SaveRows([embeddings |-> process.embeddings,
                         calendar_events |-> process.analysis.calendar_events,
                         tasks |-> process.analysis.tasks,
                         function_calls |-> process.analysis.function_calls])
            /\ retval' = nextId
            /\ ret' = SimilarOf(meetings', nextId, DefaultSimilarResults)
            /\ st_errors' = << >>
       ELSE /\ retval' = 0
            /\ ret' = << >>
            /\ st_errors' = <<"Error saving meeting">>
            /\ UNCHANGED <<meetings, nextId, childTables>>
    /\ scored' = IF committed /\ process.embeddings # << >>
                 THEN [i \in 1..Len(meetings) |-> meetings[i].id] ELSE << >>
    /\ lastOp' = "save"
    /\ args' = NoArgs
    /\ provider_calls' = 0
    /\ UNCHANGED <<fnArgs, fnOut, concVars, session_state, widgets, clicked, calendar>>

ProcessNext ==
    \/ \E t \in FileTypes : process_meeting_page(t)
    \/ \E ok \in BOOLEAN : save_uploaded_file(ok)
    \/ \E ok \in BOOLEAN : convert_video_to_audio(ok)
    \/ \E ok \in BOOLEAN : transcribe_audio(ok)
    \/ \E a \in Analyses \cup {NoAnalysis} : analyze_meeting(a)
    \/ \E r \in ConcQueries : process_embeddings(r)
    \/ \E ok \in BOOLEAN : generate_visual_summary(ok)
    \/ \E ok \in BOOLEAN : process_save(ok)

ProcessSpec == Init /\ [][ProcessNext]_vars

\* ------------------------------------------------ the codec on its own
\* Elements of a vector handed to _serialize_embeddings: zero, small
\* integers of both signs, 2^24, and two integers beyond 2^24 that no
\* single holds.
CodecValues == {0, 1, 0 - 3, 16777216, 16777217, 0 - 16777219}

RECURSIVE CodecVectorsOfLen(_)
CodecVectorsOfLen(n) ==
    IF n = 0 THEN {<< >>}
    ELSE {<<x>> \o v : x \in CodecValues, v \in CodecVectorsOfLen(n - 1)}

CodecVectors == UNION {CodecVectorsOfLen(n) : n \in 0..MaxCodecLen}

CodecInit ==
    /\ meetings = << >>
    /\ nextId = 1
    /\ lastOp = "none"
    /\ args = NoArgs
    /\ ret = << >>
    /\ retval = 0
    /\ st_errors = << >>
    /\ scored = << >>
    /\ provider_calls = 0
    /\ \E v \in CodecVectors : fnArgs = [embeddings |-> v, embeddings_blob |-> << >>]
    /\ fnOut = [fn |-> "none", raised |-> FALSE, value |-> << >>]
    /\ NoChildRows
    /\ NoCalls
    /\ NoPage

\* One call _serialize_embeddings(embeddings)
serialize_call ==
    /\ fnOut.fn = "none"
    /\ fnOut' = [fn |-> "serialize", raised |-> FALSE,
                 value |-> _serialize_embeddings(fnArgs.embeddings)]
    /\ UNCHANGED <<meetings, nextId, lastOp, args, ret, retval, st_errors,
                   scored, provider_calls, fnArgs, childTables, concVars, pageVars>>

\* One call _deserialize_embeddings(embeddings_blob) on the bytes the
\* serializer returned
deserialize_call ==
    /\ fnOut.fn = "serialize"
    /\ fnArgs' = [fnArgs EXCEPT !.embeddings_blob = fnOut.value]
    /\ fnOut' = IF DeserializeRaises(fnOut.value)
                THEN [fn |-> "deserialize", raised |-> TRUE, value |-> << >>]
                ELSE [fn |-> "deserialize", raised |-> FALSE,
                      value |-> _deserialize_embeddings(fnOut.value)]
    /\ UNCHANGED <<meetings, nextId, lastOp, args, ret, retval, st_errors,
                   scored, provider_calls, childTables, concVars, pageVars>>

CodecNext == serialize_call \/ deserialize_call

CodecSpec == CodecInit /\ [][CodecNext]_vars

\* ------------------------------------------ _cosine_similarity on its own
RECURSIVE VectorsOfLen(_)
VectorsOfLen(n) ==
    IF n = 0 THEN {<< >>}
    ELSE {<<x>> \o v : x \in (0 - 1)..1, v \in VectorsOfLen(n - 1)}

Vectors == UNION {VectorsOfLen(n) : n \in 0..MaxDim}

CosineInit ==
    /\ meetings = << >>
    /\ nextId = 1
    /\ lastOp = "none"
    /\ args = NoArgs
    /\ ret = << >>
    /\ retval = 0
    /\ st_errors = << >>
    /\ scored = << >>
    /\ provider_calls = 0
    /\ \E a \in Vectors, b \in Vectors : fnArgs = [vec1 |-> a, vec2 |-> b]
    /\ fnOut = NoFnOut
    /\ NoChildRows
    /\ NoCalls
    /\ NoPage

\* One call _cosine_similarity(vec1, vec2): the except clause catches every
\* exception, so the call always returns.
cosine_call ==
    /\ ~fnOut.done
    /\ fnOut' = [done |-> TRUE, raised |-> FALSE,
                 value |-> _cosine_similarity(fnArgs.vec1, fnArgs.vec2)]
    /\ UNCHANGED <<meetings, nextId, lastOp, args, ret, retval, st_errors,
                   scored, provider_calls, fnArgs, childTables, concVars, pageVars>>

CosineNext == cosine_call

CosineSpec == CosineInit /\ [][CosineNext]_vars

\* -------------------------------------------- get_embeddings on its own
\* Vectors the provider's embeddings.create can return: those of the other
\* specifications, among them elements that no float32 holds.
EmbedVectors == Embeddings \cup Vectors \cup CodecVectors

EmbedResponses ==
    {[ok |-> FALSE, embedding |-> << >>]}
        \cup {[ok |-> TRUE, embedding |-> e] : e \in EmbedVectors}

EmbedInit ==
    /\ meetings = << >>
    /\ nextId = 1
    /\ lastOp = "none"
    /\ args = NoArgs
    /\ ret = << >>
    /\ retval = 0
    /\ st_errors = << >>
    /\ scored = << >>
    /\ provider_calls = 0
    /\ \E r \in EmbedResponses : fnArgs = [response |-> r]
    /\ fnOut = [fn |-> "none", raised |-> FALSE, value |-> << >>]
    /\ NoChildRows
    /\ NoCalls
    /\ NoPage

\* One call get_embeddings(text) for which the provider does
\* fnArgs.response.  "except Exception" takes whatever the try block
\* raises, so the call returns.
embed_call ==
    /\ fnOut.fn = "none"
    /\ \E emb \in {get_embeddings(fnArgs.response)} :
          /\ fnOut' = [fn |-> "get_embeddings", raised |-> FALSE, value |-> emb.value]
          /\ st_errors' = emb.errors
          /\ provider_calls' = emb.calls
    /\ UNCHANGED <<meetings, nextId, lastOp, args, ret, retval, scored, fnArgs,
                   childTables, concVars, pageVars>>

EmbedNext == embed_call

EmbedSpec == EmbedInit /\ [][EmbedNext]_vars

\* --------------------------------------------- truncate_text on its own
\* A text is a sequence of characters.
RECURSIVE TextsOfLen(_)
TextsOfLen(n) ==
    IF n = 0 THEN {<< >>}
    ELSE {<<c>> \o t : c \in {"a", "."}, t \in TextsOfLen(n - 1)}

Texts == UNION {TextsOfLen(n) : n \in 0..MaxTextLen}

MaxLengths == (0 - 1) .. (MaxTextLen + 1)

\* utils.truncate_text: the text itself when it fits, else the slice
\* text[:max_length - 3] followed by three dots.  The slice bound is
\* negative for max_length < 3 and then counts from the end of the text.
truncate_text(text, max_length) ==
    IF Len(text) <= max_length THEN text
    ELSE SliceTo(text, max_length - 3) \o <<".", ".", ".">>

TruncateInit ==
    /\ meetings = << >>
    /\ nextId = 1
    /\ lastOp = "none"
    /\ args = NoArgs
    /\ ret = << >>
    /\ retval = 0
    /\ st_errors = << >>
    /\ scored = << >>
    /\ provider_calls = 0
    /\ \E t \in Texts, n \in MaxLengths : fnArgs = [text |-> t, max_length |-> n]
    /\ fnOut = [fn |-> "none", raised |-> FALSE, value |-> << >>]
    /\ NoChildRows
    /\ NoCalls
    /\ NoPage

\* One call truncate_text(text, max_length)
truncate_call ==
    /\ fnOut.fn = "none"
    /\ fnOut' = [fn |-> "truncate_text", raised |-> FALSE,
                 value |-> truncate_text(fnArgs.text, fnArgs.max_length)]
    /\ UNCHANGED <<meetings, nextId, lastOp, args, ret, retval, st_errors, scored,
                   provider_calls, fnArgs, childTables, concVars, pageVars>>

TruncateNext == truncate_call

TruncateSpec == TruncateInit /\ [][TruncateNext]_vars

\* ------------------------------------------ CalendarIntegration on its own
\* A date or time string is the sequence of its parts: runs of digits
\* (their number) and the text between them.
Digits(n) == [num |-> n, chr |-> ""]
Chars(c) == [num |-> 0, chr |-> c]
IsNumber(part, range) == part.chr = "" /\ part.num \in range
DateString(a, sep, b, c) == <<Digits(a), Chars(sep), Digits(b), Chars(sep), Digits(c)>>
TimeString(h, m) == <<Digits(h), Chars(":"), Digits(m)>>
Dates == { DateString(2025, "-", 1, 15), DateString(2024, "-", 2, 29),
           DateString(2025, "-", 2, 29), DateString(2025, "-", 13, 1),
           DateString(15, "/", 1, 2025), <<Chars("tomorrow")>> }
Times == { TimeString(9, 30), TimeString(24, 0), TimeString(9, 60),
           <<Digits(9)>>, <<Chars("noon")>> }
\* deadline: Optional[str], the empty sequence for None
Deadlines == { << >>, DateString(2025, "-", 1, 15), <<Chars("tomorrow")>> }

IsLeap(year) == year % 4 = 0 /\ (year % 100 # 0 \/ year % 400 = 0)

DaysInMonth(year, month) ==
    IF month = 2 THEN (IF IsLeap(year) THEN 29 ELSE 28)
    ELSE IF month \in {4, 6, 9, 11} THEN 30 ELSE 31

\* datetime.strptime(f"{date} {time}", "%Y-%m-%d %H:%M"): the string must
\* be year-month-day, a blank, hour:minute, with a four-digit year, a
\* month 1..12, a day of that month, an hour 0..23 and a minute 0..59;
\* anything else raises ValueError.
strptime(date, time) ==
    /\ Len(date) = 5 /\ Len(time) = 3
    /\ date[2] = Chars("-") /\ date[4] = Chars("-") /\ time[2] = Chars(":")
    /\ IsNumber(date[1], 1000..9999)
    /\ IsNumber(date[3], 1..12)
    /\ IsNumber(date[5], 1..DaysInMonth(date[1].num, date[3].num))
    /\ IsNumber(time[1], 0..23)
    /\ IsNumber(time[3], 0..59)

\* event_datetime.isoformat()
isoformat(date, time) ==
    <<date[1].num, date[3].num, date[5].num, time[1].num, time[3].num>>

\* An id that counts from zero.
NewId_fromzero(items) == Len(items)

\* "id": len(self.calendar_events) + 1 / len(self.tasks) + 1
NewId(items) == Len(items) + 1

CalendarInit ==
    /\ meetings = << >>
    /\ nextId = 1
    /\ lastOp = "none"
    /\ args = NoArgs
    /\ ret = << >>
    /\ retval = 0
    /\ st_errors = << >>
    /\ scored = << >>
    /\ provider_calls = 0
    /\ fnArgs = [date |-> << >>, time |-> << >>, deadline |-> << >>]
    /\ fnOut = [fn |-> "none", success |-> FALSE, id |-> 0]
    /\ NoChildRows
    /\ NoCalls
    /\ NoPage

\* Only the CalendarIntegration and the record of the call change
CalendarFrame ==
    UNCHANGED <<meetings, nextId, lastOp, args, ret, retval, st_errors, scored,
                provider_calls, childTables, concVars, session_state, widgets,
                clicked, process>>

\* CalendarIntegration.create_calendar_event(title, date, time, description)
create_calendar_event(date, time) ==
    /\ strptime(date, time) => Len(calendar.calendar_events) < MaxCalendarItems
    /\ fnArgs' = [date |-> date, time |-> time, deadline |-> << >>]
    /\ IF strptime(date, time)
       THEN /\ calendar' = [calendar EXCEPT !.calendar_events =
                    Append(@, [id |-> NewId(calendar.calendar_events),
                               date |-> date, time |-> time,
                               datetime |-> isoformat(date, time),
                               status |-> "scheduled"])]
            /\ fnOut' = [fn |-> "create_calendar_event", success |-> TRUE,
                         id |-> NewId(calendar.calendar_events)]
       ELSE /\ UNCHANGED calendar
            /\ fnOut' = [fn |-> "create_calendar_event", success |-> FALSE, id |-> 0]
    /\ CalendarFrame

\* CalendarIntegration.create_task(task, assignee, deadline, priority):
\* the deadline is stored as given
create_task(deadline) ==
    /\ Len(calendar.tasks) < MaxCalendarItems
    /\ fnArgs' = [date |-> << >>, time |-> << >>, deadline |-> deadline]
    /\ calendar' = [calendar EXCEPT !.tasks =
            Append(@, [id |-> NewId(calendar.tasks), deadline |-> deadline,
                       status |-> "pending"])]
    /\ fnOut' = [fn |-> "create_task", success |-> TRUE, id |-> NewId(calendar.tasks)]
    /\ CalendarFrame

CalendarNext ==
    \/ \E d \in Dates, t \in Times : create_calendar_event(d, t)
    \/ \E d \in Deadlines : create_task(d)

CalendarSpec == CalendarInit /\ [][CalendarNext]_vars

\* ------------------------------------------------------------ properties
Range(f) == {f[i] : i \in 1..Len(f)}
RetIds == {ret[i].id : i \in 1..Len(ret)}
IsSearch == lastOp = "search"
IsSimilar == lastOp = "similar"
\* position of a stored meeting in the order the store supplies rows
Pos(id) == CHOOSE i \in 1..Len(meetings) : meetings[i].id = id
Vec(row) == _deserialize_embeddings(row.embeddings)
SourceRow == get_meeting_by_id(args.meeting_id)
\* a byte length that is not a whole number of float32 elements
Malformed(blob) == Len(blob) % 4 # 0
\* sim > p/q, sim = p/q and x > y for positive similarities, on squares
ExceedsRatio(sim, p, q) == sim.dot > 0 /\ q * q * sim.dot * sim.dot > p * p * sim.nn
EqualsRatio(sim, p, q) == sim.dot > 0 /\ q * q * sim.dot * sim.dot = p * p * sim.nn
Greater(x, y) == x.dot * x.dot * y.nn > y.dot * y.dot * x.nn
\* similarity of a stored row to the query vector / to the source meeting
QuerySim(row) == _cosine_similarity(args.query.embedding, Vec(row))
SourceSim(row) == _cosine_similarity(Vec(SourceRow), Vec(row))

\* C1: a meeting is in the result of search_meetings only if its cosine
\* similarity to the query vector is strictly greater than 0.3, and in the
\* result of get_similar_meetings only if its similarity to the source
\* meeting is strictly greater than 0.2; each result carries that similarity.
C1_StrictThreshold ==
    /\ IsSearch =>
          \A i \in 1..Len(ret) :
              /\ HasMeeting(ret[i].id)
              /\ ret[i].similarity = QuerySim(get_meeting_by_id(ret[i].id))
              /\ ExceedsRatio(ret[i].similarity, 3, 10)
    /\ IsSimilar =>
          \A i \in 1..Len(ret) :
              /\ HasMeeting(ret[i].id)
              /\ ret[i].similarity = SourceSim(get_meeting_by_id(ret[i].id))
              /\ ExceedsRatio(ret[i].similarity, 1, 5)

\* A search that returned a meeting and left out a stored meeting whose
\* similarity to the query is exactly 0.3, with room left under the limit.
C1_Witness ==
    /\ IsSearch
    /\ ret # << >>
    /\ Len(ret) < args.max_results
    /\ \E i \in 1..Len(meetings) :
          /\ meetings[i].embeddings # << >>
          /\ EqualsRatio(QuerySim(meetings[i]), 3, 10)
          /\ meetings[i].id \notin RetIds

\* C2: the returned list is in descending order of similarity, and two
\* returned meetings of equal similarity are in the order in which the
\* store supplied them.
C2_SortedStable ==
    (IsSearch \/ IsSimilar) =>
        \A i, j \in 1..Len(ret) :
            i < j =>
                /\ ~Greater(ret[j].similarity, ret[i].similarity)
                /\ ~Greater(ret[i].similarity, ret[j].similarity)
                      => Pos(ret[i].id) < Pos(ret[j].id)

\* A search whose two returned meetings tie and were both stored after a
\* meeting that passes the threshold with a lower similarity.
C2_Witness ==
    /\ IsSearch
    /\ Len(ret) = 2
    /\ args.max_results = 2
    /\ ret[1].similarity = ret[2].similarity
    /\ Pos(ret[1].id) > 1
    /\ meetings[1].embeddings # << >>
    /\ ExceedsRatio(QuerySim(meetings[1]), 3, 10)
    /\ Greater(ret[1].similarity, QuerySim(meetings[1]))

\* C3: the result never has more items than the limit max_results (none
\* when the limit is not positive).
C3_AtMostLimit ==
    (IsSearch \/ IsSimilar) =>
        Len(ret) <= (IF args.max_results > 0 THEN args.max_results ELSE 0)

\* C4: a search with max_results <= 0 returns the empty list.
C4_NonPositiveLimitEmpty ==
    ((IsSearch \/ IsSimilar) /\ args.max_results <= 0) => ret = << >>

\* C5: _cosine_similarity called with vectors of different lengths fails
\* with an error and returns no score.
C5_MismatchRaises ==
    (fnOut.done /\ Len(fnArgs.vec1) # Len(fnArgs.vec2)) => fnOut.raised

\* C6: when a stored vector has another dimensionality than the query
\* vector, the search fails with an error and returns no result.
C6_MismatchAborts ==
    (/\ IsSearch
     /\ args.query.ok
     /\ \E i \in 1..Len(meetings) :
           /\ meetings[i].embeddings # << >>
           /\ Len(Vec(meetings[i])) # Len(args.query.embedding))
        => (ret = << >> /\ st_errors # << >>)

\* C7: when a stored blob whose length is not a multiple of 4 is decoded,
\* the call reports the error (st.error "Search error" / "Similar meetings
\* error"), returns nothing, and scores no vector made from those bytes.
C7_MalformedSurfaced ==
    /\ (/\ IsSearch
        /\ args.query.ok
        /\ \E i \in 1..Len(meetings) : Malformed(meetings[i].embeddings))
          => /\ ret = << >>
             /\ st_errors = <<"Search error">>
             /\ \A i \in 1..Len(meetings) :
                   Malformed(meetings[i].embeddings) => meetings[i].id \notin Range(scored)
    /\ (/\ IsSimilar
        /\ HasMeeting(args.meeting_id)
        /\ SourceRow.embeddings # << >>
        /\ \E i \in 1..Len(meetings) : Malformed(meetings[i].embeddings))
          => /\ ret = << >>
             /\ st_errors = <<"Similar meetings error">>
             /\ \A i \in 1..Len(meetings) :
                   Malformed(meetings[i].embeddings) => meetings[i].id \notin Range(scored)

\* A search over a table that holds a blob cut short and a well-formed
\* vector that passes the threshold.
C7_Witness ==
    /\ IsSearch
    /\ args.query.ok
    /\ st_errors = <<"Search error">>
    /\ \E i, j \in 1..Len(meetings) :
          /\ Malformed(meetings[i].embeddings)
          /\ ~Malformed(meetings[j].embeddings)
          /\ meetings[j].embeddings # << >>
          /\ ExceedsRatio(QuerySim(meetings[j]), 3, 10)

\* a search that failed: no query vector, or a stored blob did not decode
SearchFailed ==
    IsSearch /\ (~args.query.ok \/ \E i \in 1..Len(meetings) : Malformed(meetings[i].embeddings))

\* C8: a failed search ends with an st.error message and an empty list; a
\* search that succeeds, with or without matches, emits no error message.
C8_FailureDistinct ==
    IsSearch =>
        /\ SearchFailed <=> st_errors # << >>
        /\ SearchFailed => ret = << >>

\* A search whose embedding provider raised, over a table that holds a
\* meeting with a vector.
C8_Witness ==
    /\ IsSearch
    /\ ~args.query.ok
    /\ st_errors = <<"Embeddings error">>
    /\ \E i \in 1..Len(meetings) :
          meetings[i].embeddings # << >> /\ ~Malformed(meetings[i].embeddings)

\* C9: a meeting saved without an embedding is not a candidate: it is
\* neither returned nor passed to _cosine_similarity.
C9_UnembeddedAbsent ==
    \A i \in 1..Len(meetings) :
        meetings[i].embeddings = << >>
            => meetings[i].id \notin RetIds /\ meetings[i].id \notin Range(scored)

\* C10: get_similar_meetings(meeting_id) neither returns nor scores the
\* meeting meeting_id itself.
C10_SourceExcluded ==
    IsSimilar =>
        args.meeting_id \notin RetIds /\ args.meeting_id \notin Range(scored)

\* A get_similar_meetings call on a meeting with a nonzero vector that
\* returned another meeting.
C10_Witness ==
    /\ IsSimilar
    /\ ret # << >>
    /\ HasMeeting(args.meeting_id)
    /\ ExceedsRatio(SourceSim(SourceRow), 1, 5)

\* rows of the three tables that carry a meeting_id
ChildRowsOf(meeting_id) ==
    {r \in Range(calendar_events) \cup Range(tasks) \cup Range(function_calls) :
        r.meeting_id = meeting_id}

\* C11: after delete_meeting(id) returned True no calendar_events, tasks or
\* function_calls row with meeting_id = id remains, and in every state
\* each row of those tables references a row of meetings.
C11_NoOrphanRows ==
    /\ (lastOp = "delete" /\ retval = 1) => ChildRowsOf(args.meeting_id) = {}
    /\ \A r \in Range(calendar_events) \cup Range(tasks) \cup Range(function_calls) :
          HasMeeting(r.meeting_id)

\* C12: while save_meeting and delete_meeting calls interleave with a
\* running search_meetings call, the rows the search read have pairwise
\* different ids, each paired with the serialized vector of the save that
\* committed that id, and each returned score is the similarity of the
\* query to that vector.
C12_SnapshotRead ==
    /\ \A i, j \in 1..Len(fetched) : fetched[i].id = fetched[j].id => i = j
    /\ \A i \in 1..Len(fetched) :
          /\ fetched[i].id \in 1..Len(saved)
          /\ fetched[i].embeddings = _serialize_embeddings(saved[fetched[i].id])
    /\ (IsSearch /\ search_call.pc = "idle") =>
          /\ \A i, j \in 1..Len(ret) : ret[i].id = ret[j].id => i = j
          /\ \A i \in 1..Len(ret) :
                /\ ret[i].id \in 1..Len(saved)
                /\ ret[i].similarity =
                      _cosine_similarity(args.query.embedding, saved[ret[i].id])

\* A search returned a meeting that was deleted after the search had read
\* the table, while a meeting committed after the read is in the table and
\* was not read.
C12_Witness ==
    /\ IsSearch
    /\ search_call.pc = "idle"
    /\ \E i \in 1..Len(ret) : ~HasMeeting(ret[i].id)
    /\ \E i \in 1..Len(meetings) :
          /\ meetings[i].embeddings # << >>
          /\ \A j \in 1..Len(fetched) : fetched[j].id # meetings[i].id

\* C13: from one state to the next the embeddings blob of every meeting
\* id that stays in the table is the same, whichever of save, search,
\* similar, task update or delete ran, and a row leaves the table only by
\* a delete_meeting call on its own id.
C13_BlobImmutable ==
    [][\A i \in 1..Len(meetings) :
          \/ \E j \in 1..Len(meetings') :
                /\ meetings'[j].id = meetings[i].id
                /\ meetings'[j].embeddings = meetings[i].embeddings
          \/ /\ \A j \in 1..Len(meetings') : meetings'[j].id # meetings[i].id
             /\ lastOp' = "delete"
             /\ args'.meeting_id = meetings[i].id]_vars

\* Meeting 2 holds the vector it was saved with after a task of meeting 1
\* was updated, meeting 1 was deleted and a third meeting was saved.
C13_Witness ==
    /\ lastOp = "save"
    /\ retval = 3
    /\ ~HasMeeting(1)
    /\ HasMeeting(2)
    /\ get_meeting_by_id(2).embeddings = _serialize_embeddings(<<9, 1>>)
    /\ \E i \in 1..Len(tasks) : tasks[i].meeting_id = 1 /\ tasks[i].status = "completed"

\* the call _cosine_similarity(fnArgs.vec1, fnArgs.vec2) has returned
Returned == fnOut.done /\ ~fnOut.raised
IsZero(v) == Dot(v, v) = 0

\* C14: _cosine_similarity returns exactly 0.0, and raises nothing, when
\* either argument is an all-zero or empty vector, both included.
C14_ZeroNormZero ==
    (fnOut.done /\ (IsZero(fnArgs.vec1) \/ IsZero(fnArgs.vec2)))
        => (Returned /\ fnOut.value = ZeroSim)

\* The call returned for an all-zero vector against a nonzero vector of
\* the same length.
C14_Witness ==
    /\ Returned
    /\ fnArgs.vec1 = <<0, 0>>
    /\ Len(fnArgs.vec2) = 2
    /\ ~IsZero(fnArgs.vec2)

\* C15: _serialize_embeddings(v) is exactly 4 * len(v) bytes and b'' for
\* the empty list; _deserialize_embeddings of those bytes does not raise
\* and has len(b) / 4 elements, none for b''.
C15_CodecLengths ==
    /\ fnOut.fn = "serialize" =>
          /\ Len(fnOut.value) = 4 * Len(fnArgs.embeddings)
          /\ fnArgs.embeddings = << >> => fnOut.value = << >>
    /\ fnOut.fn = "deserialize" =>
          /\ ~fnOut.raised
          /\ 4 * Len(fnOut.value) = Len(fnArgs.embeddings_blob)
          /\ fnArgs.embeddings_blob = << >> => fnOut.value = << >>

\* A blob of eight bytes was decoded into two elements.
C15_Witness ==
    /\ fnOut.fn = "deserialize"
    /\ Len(fnArgs.embeddings_blob) = 8
    /\ Len(fnOut.value) = 2

\* an integer that an IEEE-754 single holds exactly
Representable(x) ==
    x = 0 \/ Log2(Abs(x)) <= 23 \/ Abs(x) % Pow2(Log2(Abs(x)) - 23) = 0

\* C16: for a vector whose elements are all representable as float32,
\* deserializing the serialized vector gives the vector back, element by
\* element.
C16_RoundTrip ==
    (/\ fnOut.fn = "deserialize"
     /\ \A i \in 1..Len(fnArgs.embeddings) : Representable(fnArgs.embeddings[i]))
        => (~fnOut.raised /\ fnOut.value = fnArgs.embeddings)

\* The vector [-3, 2^24] came back from the round trip.
C16_Witness ==
    /\ fnOut.fn = "deserialize"
    /\ fnArgs.embeddings = <<0 - 3, 16777216>>
    /\ fnOut.value = <<0 - 3, 16777216>>

\* the table holds A = [1,0], B = [0,1], C = [0.9,0.1] in that order and
\* the search ran with the query vector [1,0] and limit 10
ExampleSearch ==
    /\ IsSearch
    /\ args.query = [ok |-> TRUE, embedding |-> <<1, 0>>]
    /\ args.max_results = 10
    /\ meetings = <<[id |-> 1, embeddings |-> _serialize_embeddings(<<1, 0>>)],
                    [id |-> 2, embeddings |-> _serialize_embeddings(<<0, 1>>)],
                    [id |-> 3, embeddings |-> _serialize_embeddings(<<9, 1>>)]>>

\* C17: with query [1,0], candidates A = [1,0], B = [0,1], C = [0.9,0.1]
\* stored in that order and limit 10, search_meetings returns exactly
\* [A, C], A with score 1.0, and leaves B out.
C17_ExampleResult ==
    ExampleSearch =>
        /\ Len(ret) = 2
        /\ ret[1].id = 1
        /\ ret[1].similarity.value = FloatOne
        /\ ret[2].id = 3
        /\ FloatLess(ret[2].similarity.value, FloatOne)

\* The search of the example returned a list.
C17_Witness == ExampleSearch /\ ret # << >> /\ st_errors = << >>

\* 1 - 4 and 1 + 4 units of rounding (a unit is 2^-FloatBits)
NearOneLow == [m |-> Pow2(FloatBits) - 4, e |-> 0 - FloatBits]
NearOneHigh == [m |-> Pow2(FloatBits - 1) + 2, e |-> 1 - FloatBits]
SelfCall == Returned /\ fnArgs.vec1 = fnArgs.vec2 /\ ~IsZero(fnArgs.vec1)
\* the sum of squares of v is a perfect square: norm and norm * norm are exact
ExactNorm(v) == \E k \in 1..Dot(v, v) : k * k = Dot(v, v)

\* C18: _cosine_similarity(v, v) is 1.0 for every nonzero v.
C18_SelfIsOne == SelfCall => fnOut.value.value = FloatOne

\* C18, amended: _cosine_similarity(v, v) is within 4 units of rounding of
\* 1.0 for every nonzero v, and is 1.0 when the norm of v is exact.
C18_SelfNearOne ==
    SelfCall =>
        /\ ~FloatLess(fnOut.value.value, NearOneLow)
        /\ ~FloatLess(NearOneHigh, fnOut.value.value)
        /\ ExactNorm(fnArgs.vec1) => fnOut.value.value = FloatOne

\* The call returned for v = [1, -1] against itself, with a result that is
\* not 1.0.
C18_Witness ==
    /\ SelfCall
    /\ fnArgs.vec1 = <<1, 0 - 1>>
    /\ fnOut.value.value # FloatOne

\* C19: _cosine_similarity(a, b) = _cosine_similarity(b, a) for all a and
\* b, the pairs that take the zero-norm or the exception path included.
C19_Symmetric ==
    fnOut.done =>
        /\ Returned
        /\ fnOut.value.value = _cosine_similarity(fnArgs.vec2, fnArgs.vec1).value

\* The call returned a negative score for two different nonzero vectors
\* with different norms.
C19_Witness ==
    /\ Returned
    /\ fnArgs.vec1 = <<1, 0 - 1>>
    /\ fnArgs.vec2 = <<0, 1>>
    /\ FloatLess(fnOut.value.value, FloatZero)

\* C20: every score in a list search_meetings or get_similar_meetings
\* returned lies in [-1, 1]; none exceeds 1.0.
C20_ScoreInRange ==
    (IsSearch \/ IsSimilar) =>
        \A i \in 1..Len(ret) :
            /\ ~FloatLess(FloatOne, ret[i].similarity.value)
            /\ ~FloatLess(ret[i].similarity.value, FloatNeg(FloatOne))

C22_ProviderOnce ==
    /\ search_call.pc # "idle" => search_call.provider_calls = 1
    /\ IsSearch => provider_calls = 1
    /\ (IsSearch /\ search_call.pc = "idle" /\ ~args.query.ok) =>
          /\ ret = << >>
          /\ fetched = << >>
          /\ scored = << >>
          /\ st_errors = <<"Embeddings error">>

\* A search whose one provider invocation failed returned while the store
\* held a meeting saved with the vector [1, 0].
C22_Witness ==
    /\ IsSearch
    /\ search_call.pc = "idle"
    /\ ~args.query.ok
    /\ provider_calls = 1
    /\ \E i \in 1..Len(meetings) : meetings[i].embeddings = _serialize_embeddings(<<1, 0>>)

\* C23: when the provider's embeddings call raises, get_embeddings returns
\* the empty list, with one st.error message, and raises nothing; when the
\* call returns an embedding, get_embeddings returns that embedding,
\* element for element, with no message.
C23_EmbeddingsOrEmpty ==
    fnOut.fn = "get_embeddings" =>
        /\ ~fnOut.raised
        /\ ~fnArgs.response.ok =>
              fnOut.value = << >> /\ st_errors = <<"Embeddings error">>
        /\ fnArgs.response.ok =>
              fnOut.value = fnArgs.response.embedding /\ st_errors = << >>

\* get_embeddings returned a provider vector with an element that float32
\* does not hold.
C23_Witness ==
    /\ fnOut.fn = "get_embeddings"
    /\ fnArgs.response = [ok |-> TRUE, embedding |-> <<16777217, 1>>]
    /\ fnOut.value = <<16777217, 1>>

\* no stored meeting has a vector: the candidate sequence is empty
NoCandidates == \A i \in 1..Len(meetings) : meetings[i].embeddings = << >>

\* C24: when no stored meeting has a vector, a search whose query was
\* embedded, and a get_similar_meetings call, return the empty list and
\* emit no error message.
C24_EmptyCandidates ==
    (/\ NoCandidates
     /\ (IsSearch /\ args.query.ok) \/ IsSimilar)
        => (ret = << >> /\ st_errors = << >> /\ scored = << >>)

\* A search with a nonzero query vector ran over a table whose two
\* meetings were both saved without an embedding.
C24_Witness ==
    /\ IsSearch
    /\ args.query = [ok |-> TRUE, embedding |-> <<1, 0, 0, 0>>]
    /\ args.max_results > 0
    /\ Len(meetings) = 2
    /\ NoCandidates
    /\ ret = << >>

\* the last three characters of a text are dots
EndsInDots(text) ==
    Len(text) >= 3 /\ SubSeq(text, Len(text) - 2, Len(text)) = <<".", ".", ".">>

\* C25: truncate_text(text, max_length) returns text unchanged when
\* len(text) <= max_length, and otherwise a string of exactly max_length
\* characters that ends in "..."; the result is never longer than
\* max_length.
C25_TruncateLength ==
    fnOut.fn = "truncate_text" =>
        /\ Len(fnArgs.text) <= fnArgs.max_length => fnOut.value = fnArgs.text
        /\ Len(fnArgs.text) > fnArgs.max_length =>
              /\ Len(fnOut.value) = fnArgs.max_length
              /\ EndsInDots(fnOut.value)
        /\ Len(fnOut.value) <= fnArgs.max_length

\* the rows of a child table that carry this meeting_id, in table order
RowsFor(table, meeting_id) == SelectSeq(table, LAMBDA r : r.meeting_id = meeting_id)
\* the table after the step begins with the table before it
Extends(after, before) ==
    Len(after) >= Len(before) /\ SubSeq(after, 1, Len(before)) = before

\* C26: when a save_meeting call returns an id, table meetings holds the
\* row with that id and the passed vector, and the child tables hold,
\* under that id, one row per calendar event, task and function call
\* passed, next to the rows they held before; when the call returns None
\* every table is as it was before the call and no row carries the id the
\* call had taken.
C26_SaveAtomic ==
    [][(txn # << >> /\ txn' = << >>) =>
          /\ retval' # 0 =>
                /\ retval' = txn[1].row.id
                /\ meetings' = Append(meetings, txn[1].row)
                /\ txn[1].row.embeddings =
                      _serialize_embeddings(txn[1].meeting_data.embeddings)
                /\ Extends(calendar_events', calendar_events)
                /\ Extends(tasks', tasks)
                /\ Extends(function_calls', function_calls)
                /\ Len(RowsFor(calendar_events', retval')) =
                      Len(txn[1].meeting_data.calendar_events)
                /\ [i \in 1..Len(RowsFor(tasks', retval')) |->
                        RowsFor(tasks', retval')[i].status] = txn[1].meeting_data.tasks
                /\ Len(RowsFor(function_calls', retval')) =
                      Len(txn[1].meeting_data.function_calls)
          /\ retval' = 0 =>
                /\ UNCHANGED <<meetings, calendar_events, tasks, function_calls>>
                /\ \A i \in 1..Len(meetings') : meetings'[i].id # txn[1].row.id
                /\ RowsFor(calendar_events', txn[1].row.id) = << >>
                /\ RowsFor(tasks', txn[1].row.id) = << >>
                /\ RowsFor(function_calls', txn[1].row.id) = << >>]_vars

\* A save with tasks failed after its meetings row was inserted, while the
\* tables held the rows of an earlier save that returned id 1.
C26_Witness ==
    /\ lastOp = "save"
    /\ retval = 0
    /\ st_errors = <<"Error saving meeting">>
    /\ txn = << >>
    /\ nextId = 2
    /\ Len(meetings) = 1
    /\ Len(tasks) = 2
    /\ Len(calendar_events) = 1

\* the step is a run of the management page (a step that changes nothing
\* is none)
ManageRun == lastOp' \in {"manage", "delete"}

\* C27: a run of the management page calls delete_meeting(id) only when it
\* was started by a click on "Yes, Delete" of meeting id while
\* confirm_delete_<id> was set, and after an earlier click on Delete of
\* that meeting; a meeting leaves the table only by such a call; the flag
\* of a meeting is set only by a click on its Delete button, is cleared by
\* a delete that succeeded, and Cancel clears it and deletes nothing.
C27_DeleteConfirmed ==
    [][/\ lastOp' = "delete" =>
             /\ clicked'.button = "confirm_yes"
             /\ clicked'.id = args'.meeting_id
             /\ clicked'.id \in session_state
             /\ clicked'.id \in clicked.deletes
             /\ retval' = 1 => clicked'.id \notin session_state'
       /\ \A m \in MeetingIds :
             (HasMeeting(m) /\ \A i \in 1..Len(meetings') : meetings'[i].id # m) =>
                 lastOp' = "delete" /\ args'.meeting_id = m /\ retval' = 1
       /\ \A m \in session_state' \ session_state :
             clicked'.button = "delete" /\ clicked'.id = m
       /\ (ManageRun /\ clicked'.button = "confirm_no") =>
             /\ meetings' = meetings
             /\ lastOp' = "manage"
             /\ clicked'.id \notin session_state'
       /\ session_state' \subseteq clicked'.deletes]_vars

\* Meeting 2 was deleted by a click on its "Yes, Delete" button while the
\* flag of meeting 1 stays set and the filter hides no meeting.
C27_Witness ==
    /\ lastOp = "delete"
    /\ retval = 1
    /\ clicked.button = "confirm_yes"
    /\ clicked.id = 2
    /\ ~HasMeeting(2)
    /\ session_state = {1}
    /\ HasMeeting(1)
    /\ widgets.search_filter = ""

\* the steps that must succeed before the save, in the order of the page
RequiredSteps(file_type) ==
    IF file_type = "video" THEN <<"save_file", "convert", "transcribe", "analyze">>
    ELSE <<"save_file", "transcribe", "analyze">>
StopSteps == {"convert", "transcribe", "analyze"}
\* the run as it is when save_meeting is called, and after it returned
AtSave(run) == run.pc \in {"save", "finished"}

\* state part of C28
C28_State(run) ==
    /\ AtSave(run) =>
          /\ SelectSeq(run.done, LAMBDA x : x \notin {"embeddings", "visual"}) =
                RequiredSteps(run.file_type)
          /\ Range(run.failed) \subseteq {"embeddings", "visual"}
    /\ (Range(run.failed) \cap StopSteps # {}) <=> run.pc = "returned"
    /\ run.pc = "returned" =>
          run.failed[Len(run.failed)] \in StopSteps /\ "analyze" \notin Range(run.done)

\* C28: save_meeting is called only in a run in which the file save, the
\* conversion (video files only), the transcription and the analysis
\* succeeded, in that order; a run in which conversion, transcription or
\* analysis fails returns at that step and changes no table; a failed
\* embedding or visual-summary step never makes a run return, and rows are
\* written only by the save step.
C28_SaveAfterSteps ==
    [][/\ C28_State(process')
       /\ process'.pc = "returned" => UNCHANGED <<meetings, nextId, childTables>>
       /\ meetings' # meetings =>
             /\ process.pc = "save"
             /\ process'.pc = "finished"
             /\ retval' # 0
       /\ process.pc \in {"embeddings", "visual"} =>
             process'.pc \in {"visual", "save"}]_vars

\* A run on a video file saved meeting 2 although its embedding step and
\* its visual-summary step had both failed.
C28_Witness ==
    /\ process.pc = "finished"
    /\ process.file_type = "video"
    /\ process.failed = <<"embeddings", "visual">>
    /\ lastOp = "save"
    /\ retval = 2
    /\ HasMeeting(2)
    /\ get_meeting_by_id(2).embeddings = << >>

IsDay(date) ==
    /\ Len(date) = 5
    /\ \A i \in {1, 3, 5} : date[i].chr = ""
    /\ <<date[2].chr, date[4].chr>> = <<"-", "-">>
    /\ date[1].num \in 1000..9999
    /\ date[3].num \in 1..12
    /\ date[5].num >= 1
    /\ date[5].num <= (CASE date[3].num \in {1, 3, 5, 7, 8, 10, 12} -> 31
                         [] date[3].num \in {4, 6, 9, 11} -> 30
                         [] OTHER -> IF date[1].num \in {2024, 2028} THEN 29 ELSE 28)
IsMinute(time) ==
    /\ Len(time) = 3
    /\ time[2].chr = ":"
    /\ time[1].chr = "" /\ time[1].num \in 0..23
    /\ time[3].chr = "" /\ time[3].num \in 0..59
\* item i of a list has id i
IdsInOrder(items) == \A i \in 1..Len(items) : items[i].id = i

\* C30: after every sequence of create_calendar_event and create_task
\* calls, the events in calendar_events have the ids 1..n in list order,
\* and so have the tasks; a call that succeeds appends its one item,
\* with the arguments of the call, to its own list and leaves the other
\* list alone; a create_calendar_event call whose date and time are not a
\* calendar day and a minute of the day returns success False and leaves
\* both lists unchanged.
C30_CalendarIds ==
    [][/\ IdsInOrder(calendar'.calendar_events)
       /\ IdsInOrder(calendar'.tasks)
       /\ (fnOut'.fn = "create_calendar_event" /\ fnOut'.success) =>
             /\ Len(calendar'.calendar_events) = Len(calendar.calendar_events) + 1
             /\ SubSeq(calendar'.calendar_events, 1, Len(calendar.calendar_events))
                    = calendar.calendar_events
             /\ calendar'.calendar_events[Len(calendar'.calendar_events)].date
                    = fnArgs'.date
             /\ calendar'.calendar_events[Len(calendar'.calendar_events)].time
                    = fnArgs'.time
             /\ fnOut'.id = Len(calendar'.calendar_events)
             /\ calendar'.tasks = calendar.tasks
       /\ fnOut'.fn = "create_task" =>
             /\ fnOut'.success
             /\ Len(calendar'.tasks) = Len(calendar.tasks) + 1
             /\ SubSeq(calendar'.tasks, 1, Len(calendar.tasks)) = calendar.tasks
             /\ fnOut'.id = Len(calendar'.tasks)
             /\ calendar'.calendar_events = calendar.calendar_events
       /\ (/\ fnOut'.fn = "create_calendar_event"
           /\ ~(IsDay(fnArgs'.date) /\ IsMinute(fnArgs'.time))) =>
             /\ ~fnOut'.success
             /\ calendar' = calendar]_vars

\* A call with the date 2025-02-29 returned success False after two events
\* and a task had been created.
C30_Witness ==
    /\ fnOut.fn = "create_calendar_event"
    /\ ~fnOut.success
    /\ fnArgs.date = DateString(2025, "-", 2, 29)
    /\ fnArgs.time = TimeString(9, 30)
    /\ Len(calendar.calendar_events) = 2
    /\ calendar.calendar_events[2].id = 2
    /\ Len(calendar.tasks) = 1

====
